---- MODULE Spec2Model ----
(***************************************************************************)
(* The repository-index builder of devkit/build_packages.py and the        *)
(* summary builder of devkit/build_release.py.                             *)
(*                                                                         *)
(* Text is modelled character by character: a string is a sequence of      *)
(* one-character strings, so that splitting on blank lines, stripping,     *)
(* the "Key: Value" split and the sort on the composite key are computed   *)
(* the way the Python code computes them.                                  *)
(***************************************************************************)
EXTENDS Integers, Sequences, FiniteSets, TLC

VARIABLES
    downloads,      \* the directory 'downloads': file name -> file
    packages,       \* the file 'Packages'
    packages_gz,    \* the file 'Packages.gz'
    packages_bz2,   \* the file 'Packages.bz2'
    packages_xz,    \* the file 'Packages.xz'
    packages_zst,   \* the file 'Packages.zst'
    release,        \* the file 'Release'
    prior,          \* 'Packages' as it was when the last build_packages run started
    BASE_URL,       \* 'base-url' of index.yaml, << >> when it is null or empty
    last            \* the last build_packages run: mode, ChangeSet, outcome

vars == << downloads, packages, packages_gz, packages_bz2, packages_xz,
           packages_zst, release, prior, BASE_URL, last >>

----------------------------------------------------------------------------
(* Bounds *)

\* the longest list of paths the ChangeSet provider (git) reports in one run
MaxChangeSet == 2

----------------------------------------------------------------------------
(* Characters and Python's str operations *)

\* code points of the characters the model uses (Python compares str by code point)
Ord ==
    "\n" :> 10 @@ " " :> 32 @@ "-" :> 45 @@ "." :> 46 @@ "/" :> 47 @@ "0" :> 48 @@
    "1" :> 49 @@ "2" :> 50 @@ "3" :> 51 @@ "4" :> 52 @@ "5" :> 53 @@ "6" :> 54 @@
    "7" :> 55 @@ "8" :> 56 @@ "9" :> 57 @@ ":" :> 58 @@ "A" :> 65 @@ "B" :> 66 @@
    "D" :> 68 @@ "F" :> 70 @@ "H" :> 72 @@ "I" :> 73 @@ "M" :> 77 @@ "N" :> 78 @@
    "P" :> 80 @@ "S" :> 83 @@ "V" :> 86 @@ "_" :> 95 @@ "a" :> 97 @@ "b" :> 98 @@
    "c" :> 99 @@ "d" :> 100 @@ "e" :> 101 @@ "f" :> 102 @@ "g" :> 103 @@ "h" :> 104 @@
    "i" :> 105 @@ "j" :> 106 @@ "k" :> 107 @@ "l" :> 108 @@ "m" :> 109 @@ "n" :> 110 @@
    "o" :> 111 @@ "p" :> 112 @@ "q" :> 113 @@ "r" :> 114 @@ "s" :> 115 @@ "t" :> 116 @@
    "u" :> 117 @@ "v" :> 118 @@ "w" :> 119 @@ "x" :> 120 @@ "y" :> 121 @@ "z" :> 122

NL == << "\n" >>
NLNL == << "\n", "\n" >>
ColonSpace == << ":", " " >>
Underscore == << "_" >>

\* the characters str.strip() removes
Whitespace == { " ", "\n", "\t", "\r" }

MinOf(S) == CHOOSE x \in S : \A y \in S : x <= y

\* the positions at which sep occurs in s
Occurs(s, sep) ==
    { i \in 1..(Len(s) - Len(sep) + 1) :
        s[i] = sep[1] /\ \A j \in 2..Len(sep) : s[i + j - 1] = sep[j] }

\* sep in s
Contains(s, sep) == Occurs(s, sep) # {}

\* s.startswith(p), s.endswith(p)
StartsWith(s, p) == Len(s) >= Len(p) /\ SubSeq(s, 1, Len(p)) = p
EndsWith(s, p) == Len(s) >= Len(p) /\ SubSeq(s, Len(s) - Len(p) + 1, Len(s)) = p

\* s.split(sep): the pieces between the leftmost non-overlapping occurrences of sep
RECURSIVE SplitFrom(_, _, _, _)
SplitFrom(s, sep, occ, start) ==
    LET later == { i \in occ : i >= start } IN
    IF later = {} THEN << SubSeq(s, start, Len(s)) >>
    ELSE LET i == MinOf(later) IN
         << SubSeq(s, start, i - 1) >> \o SplitFrom(s, sep, occ, i + Len(sep))

Split(s, sep) == SplitFrom(s, sep, Occurs(s, sep), 1)

\* s.split(sep, 1) for an s that holds sep: what is before and after the first sep
SplitOnce(s, sep) ==
    LET i == MinOf(Occurs(s, sep)) IN
    << SubSeq(s, 1, i - 1), SubSeq(s, i + Len(sep), Len(s)) >>

\* s.strip(): s without the whitespace at its two ends
RECURSIVE FirstKept(_, _)
FirstKept(s, i) == IF i > Len(s) \/ s[i] \notin Whitespace THEN i ELSE FirstKept(s, i + 1)
RECURSIVE LastKept(_, _)
LastKept(s, i) == IF i < 1 \/ s[i] \notin Whitespace THEN i ELSE LastKept(s, i - 1)
Strip(s) == SubSeq(s, FirstKept(s, 1), LastKept(s, Len(s)))

\* s < t for two str: the first differing code point decides, then the length
StrLess(s, t) ==
    LET m == IF Len(s) < Len(t) THEN Len(s) ELSE Len(t)
        diff == { i \in 1..m : s[i] # t[i] }
    IN IF diff = {} THEN Len(s) < Len(t)
       ELSE Ord[s[MinOf(diff)]] < Ord[t[MinOf(diff)]]

\* sorted(S) for a set of str
RECURSIVE Sorted(_)
Sorted(S) ==
    IF S = {} THEN << >>
    ELSE LET least == CHOOSE x \in S : \A y \in S \ { x } : StrLess(x, y)
         IN << least >> \o Sorted(S \ { least })

\* the concatenation of a sequence of str
RECURSIVE Concat(_)
Concat(ss) == IF ss = << >> THEN << >> ELSE Head(ss) \o Concat(Tail(ss))

\* the elements of a sequence, as a set
Range(f) == { f[i] : i \in DOMAIN f }

\* Python's None for an optional str, and a present str
None == << >>
Some(s) == << s >>

----------------------------------------------------------------------------
(* String literals of the source *)

S_Package == <<"P","a","c","k","a","g","e">>
S_Version == <<"V","e","r","s","i","o","n">>
S_Architecture == <<"A","r","c","h","i","t","e","c","t","u","r","e">>
S_Filename == <<"F","i","l","e","n","a","m","e">>
S_unknown == <<"u","n","k","n","o","w","n">>
P_Package == <<"P","a","c","k","a","g","e",":"," ">>
P_Version == <<"V","e","r","s","i","o","n",":"," ">>
P_Architecture == <<"A","r","c","h","i","t","e","c","t","u","r","e",":"," ">>
P_Name == <<"N","a","m","e",":"," ">>
P_Depiction == <<"D","e","p","i","c","t","i","o","n",":"," ","h","t","t","p","s",":","/","/","h","a","v","o","c",".","a","p","p","/","d","e","p","i","c","t","i","o","n","/">>
P_SileoDepiction == <<"S","i","l","e","o","D","e","p","i","c","t","i","o","n",":"," ","h","t","t","p","s",":","/","/","h","a","v","o","c",".","a","p","p","/","p","a","c","k","a","g","e","/">>
S_depiction_json == <<"/","d","e","p","i","c","t","i","o","n",".","j","s","o","n">>
P_Icon == <<"I","c","o","n",":"," ">>
S_icons == <<"/","i","c","o","n","s","/">>
P_Filename == <<"F","i","l","e","n","a","m","e",":"," ">>
P_Size == <<"S","i","z","e",":"," ">>
P_MD5sum == <<"M","D","5","s","u","m",":"," ">>
P_SHA1 == <<"S","H","A","1",":"," ">>
P_SHA256 == <<"S","H","A","2","5","6",":"," ">>
P_SHA512 == <<"S","H","A","5","1","2",":"," ">>
S_deb == <<".","d","e","b">>
S_downloads_slash == <<"d","o","w","n","l","o","a","d","s","/">>

----------------------------------------------------------------------------
(* index.yaml and icons/index.yaml, read once when the program starts *)

\* the values of 'base-url' the model starts from
BaseUrls == { << >>, <<"/","/","r">> }
havoc_ids == [ n \in { <<"b">>, <<"c">> } |-> IF n = <<"b">> THEN <<"7">> ELSE <<"8">> ]
hidden_packages == { <<"h">> }
package_title_mappings == [ n \in { <<"b">> } |-> <<"B">> ]
icon_mappings == [ n \in { <<"a">>, <<"b">> } |-> IF n = <<"b">> THEN <<"i">> ELSE <<"j">> ]

\* dict.get(key, None)
DictGet(d, k) == IF k \in DOMAIN d THEN Some(d[k]) ELSE None

\* the truth value of an optional str: neither None nor ''
Truthy(opt) == opt # None /\ opt[1] # << >>

----------------------------------------------------------------------------
(* The files of the working tree *)

\* a file of the directory 'downloads': kind "deb" is an archive dpkg-deb reads,
\* "corrupt" one on which dpkg-deb exits non-zero, "other" any other file,
\* "absent" no file; control is what `dpkg-deb -f` prints; id stands for the bytes
Archive(control, id) == [ kind |-> "deb", control |-> control, id |-> id ]
Corrupt == [ kind |-> "corrupt", control |-> << >>, id |-> "9" ]
OtherFile == [ kind |-> "other", control |-> << >>, id |-> "0" ]
Absent == [ kind |-> "absent", control |-> << >>, id |-> "0" ]

Deb_a1 == Archive(<<"P","a","c","k","a","g","e",":"," ","a","\n","V","e","r","s","i","o","n",":"," ","1","\n","A","r","c","h","i","t","e","c","t","u","r","e",":"," ","x","\n">>, "1")
Deb_a2 == Archive(<<"P","a","c","k","a","g","e",":"," ","a","\n","V","e","r","s","i","o","n",":"," ","2","\n","A","r","c","h","i","t","e","c","t","u","r","e",":"," ","x","\n">>, "2")
Deb_b1 == Archive(<<"P","a","c","k","a","g","e",":"," ","b","\n","N","a","m","e",":"," ","n","\n","V","e","r","s","i","o","n",":"," ","1","\n","A","r","c","h","i","t","e","c","t","u","r","e",":"," ","x","\n">>, "3")
Deb_h1 == Archive(<<"P","a","c","k","a","g","e",":"," ","h","\n","V","e","r","s","i","o","n",":"," ","1","\n","A","r","c","h","i","t","e","c","t","u","r","e",":"," ","x","\n">>, "4")
Deb_nopackage == Archive(<<"V","e","r","s","i","o","n",":"," ","1","\n","A","r","c","h","i","t","e","c","t","u","r","e",":"," ","x","\n">>, "5")
Deb_c1 == Archive(<<"P","a","c","k","a","g","e",":"," ","c","\n","V","e","r","s","i","o","n",":"," ","1","\n","A","r","c","h","i","t","e","c","t","u","r","e",":"," ","x","\n">>, "7")
Deb_noversion == Archive(<<"P","a","c","k","a","g","e",":"," ","a","\n","A","r","c","h","i","t","e","c","t","u","r","e",":"," ","x","\n">>, "6")

File_a == <<"a",".","d","e","b">>
File_b == <<"b",".","d","e","b">>
File_n == <<"n",".","t","x","t">>
FileNames == { File_a, File_b, File_n }

\* the directories the model starts from
Directories ==
    { [ n \in FileNames |-> IF n = File_a THEN fa ELSE IF n = File_b THEN fb ELSE OtherFile ] :
        fa \in { Absent, Deb_a1, Deb_a2, Deb_h1, Corrupt },
        fb \in { Deb_a1, Deb_b1, Deb_c1, Deb_nopackage, Deb_noversion, Corrupt } }

\* os.path.join(deb_directory, deb_file)
deb_directory == <<"d","o","w","n","l","o","a","d","s">>
PathJoin(dir, name) == dir \o << "/" >> \o name

\* the paths git may report as newly added
GitPaths == { PathJoin(deb_directory, File_a), PathJoin(deb_directory, File_b),
              PathJoin(deb_directory, File_n) }

\* the file at a path of the working tree
FileAt(dir, path) ==
    IF StartsWith(path, S_downloads_slash)
       /\ SubSeq(path, Len(S_downloads_slash) + 1, Len(path)) \in DOMAIN dir
    THEN dir[SubSeq(path, Len(S_downloads_slash) + 1, Len(path))]
    ELSE Absent

\* os.path.exists(path)
PathExists(dir, path) == FileAt(dir, path).kind # "absent"

\* a file of the working tree that is written by the programs
NoFile == [ exists |-> FALSE, data |-> << >> ]
File(data) == [ exists |-> TRUE, data |-> data ]

\* an index document that was on disk before the first run: two stanzas with
\* two blank lines between them, and a stanza that has no Version field
LegacyDocument == <<"P","a","c","k","a","g","e",":"," ","a","\n","V","e","r","s","i","o","n",":"," ","1","\n","A","r","c","h","i","t","e","c","t","u","r","e",":"," ","x","\n","F","i","l","e","n","a","m","e",":"," ","d","o","w","n","l","o","a","d","s","/","a",".","d","e","b","\n","\n","\n","P","a","c","k","a","g","e",":"," ","b","\n","V","e","r","s","i","o","n",":"," ","1","\n","A","r","c","h","i","t","e","c","t","u","r","e",":"," ","x","\n","F","i","l","e","n","a","m","e",":"," ","d","o","w","n","l","o","a","d","s","/","b",".","d","e","b","\n","\n","P","a","c","k","a","g","e",":"," ","c","\n","A","r","c","h","i","t","e","c","t","u","r","e",":"," ","x","\n","\n">>

\* an index document that was on disk before the first run: one blank line after
\* each stanza, and two stanzas with the same Package, Version and Architecture
DuplicateDocument == <<"P","a","c","k","a","g","e",":"," ","a","\n","V","e","r","s","i","o","n",":"," ","1","\n","A","r","c","h","i","t","e","c","t","u","r","e",":"," ","x","\n","F","i","l","e","n","a","m","e",":"," ","d","o","w","n","l","o","a","d","s","/","a",".","d","e","b","\n","\n","P","a","c","k","a","g","e",":"," ","a","\n","V","e","r","s","i","o","n",":"," ","1","\n","A","r","c","h","i","t","e","c","t","u","r","e",":"," ","x","\n","F","i","l","e","n","a","m","e",":"," ","d","o","w","n","l","o","a","d","s","/","o",".","d","e","b","\n","\n">>

----------------------------------------------------------------------------
(* build_packages.py: the pure parts *)

\* hashlib's hexdigest of a file's bytes: one token per algorithm and content
Hexdigest(alg, file) == << alg, file.id >>

\* get_file_hashes: the four digests, in the order the dict is filled
get_file_hashes(file) ==
    << << P_MD5sum, Hexdigest("a", file) >>, << P_SHA1, Hexdigest("b", file) >>,
       << P_SHA256, Hexdigest("c", file) >>, << P_SHA512, Hexdigest("d", file) >> >>

\* str(os.path.getsize(path)): the size in decimal
FileSize(file) == << file.id >>

\* the paths of the ChangeSet: the .deb files under downloads/ that git reports
ChangeSetFilter(f) == EndsWith(f, S_deb) /\ StartsWith(f, S_downloads_slash)
get_newly_added_deb_files(all_new_files) == SelectSeq(all_new_files, ChangeSetFilter)

\* the composite key f"{package_name}_{version}_{architecture}"
PackageKey(package_name, version, architecture) ==
    package_name \o Underscore \o version \o Underscore \o architecture

\* the four variables the loop over a block's lines assigns
NoFields == [ package_name |-> None, version |-> None, architecture |-> None,
              filename |-> None ]

\* one step of that loop: a line that holds ': ' is split at the first one
ScanLine(found, line) ==
    IF ~Contains(line, ColonSpace) THEN found
    ELSE LET kv == SplitOnce(line, ColonSpace) IN
         IF kv[1] = S_Package THEN [ found EXCEPT !.package_name = Some(kv[2]) ]
         ELSE IF kv[1] = S_Version THEN [ found EXCEPT !.version = Some(kv[2]) ]
         ELSE IF kv[1] = S_Architecture THEN [ found EXCEPT !.architecture = Some(kv[2]) ]
         ELSE IF kv[1] = S_Filename THEN [ found EXCEPT !.filename = Some(kv[2]) ]
         ELSE found

RECURSIVE ScanLines(_, _, _)
ScanLines(found, lines, i) ==
    IF i > Len(lines) THEN found ELSE ScanLines(ScanLine(found, lines[i]), lines, i + 1)

\* the loop body of parse_existing_packages for one block: whether the block
\* gets an entry, its key and the entry
ParseBlock(block) ==
    IF Strip(block) = << >>
    THEN [ kept |-> FALSE, key |-> << >>, block |-> block, filename |-> None ]
    ELSE LET found == ScanLines(NoFields, Split(Strip(block), NL), 1) IN
         IF Truthy(found.package_name) /\ Truthy(found.version) /\ Truthy(found.architecture)
         THEN [ kept |-> TRUE,
                key |-> PackageKey(found.package_name[1], found.version[1],
                                   found.architecture[1]),
                block |-> block, filename |-> found.filename ]
         ELSE [ kept |-> FALSE, key |-> << >>, block |-> block, filename |-> found.filename ]

\* the loop of parse_existing_packages: a later block replaces the entry of its key
RECURSIVE ParseBlocks(_, _, _)
ParseBlocks(found, package_blocks, i) ==
    IF i > Len(package_blocks) THEN found
    ELSE LET b == ParseBlock(package_blocks[i]) IN
         ParseBlocks(IF b.kept
                     THEN [ k \in DOMAIN found \cup { b.key } |->
                              IF k = b.key THEN [ block |-> b.block, filename |-> b.filename ]
                              ELSE found[k] ]
                     ELSE found,
                     package_blocks, i + 1)

EmptyDict == [ k \in {} |-> << >> ]

\* parse_existing_packages: key -> (block, filename) of the last block with that key
parse_existing_packages(packages_file) ==
    IF ~packages_file.exists THEN EmptyDict
    ELSE ParseBlocks(EmptyDict, Split(packages_file.data, NLNL), 1)

\* re.search(r"^<prefix>(.+)$", text, re.MULTILINE): group 1 of the first line
\* that starts with the prefix and goes on, or None
ReSearchLine(prefix, text) ==
    LET lines == Split(text, NL)
        hits == { i \in 1..Len(lines) :
                    StartsWith(lines[i], prefix) /\ Len(lines[i]) > Len(prefix) }
    IN IF hits = {} THEN None
       ELSE Some(SubSeq(lines[MinOf(hits)], Len(prefix) + 1, Len(lines[MinOf(hits)])))

\* "\n".join(lines)
RECURSIVE JoinLines(_)
JoinLines(lines) ==
    IF Len(lines) = 0 THEN << >>
    ELSE IF Len(lines) = 1 THEN lines[1]
    ELSE lines[1] \o NL \o JoinLines(Tail(lines))

\* re.sub(r"^Name: .+$", f"Name: {title}", text, flags=re.MULTILINE)
ReSubName(title, text) ==
    LET lines == Split(text, NL) IN
    JoinLines([ i \in 1..Len(lines) |->
        IF StartsWith(lines[i], P_Name) /\ Len(lines[i]) > Len(P_Name)
        THEN P_Name \o title ELSE lines[i] ])

\* what process_single_deb_file returns for nothing: (None, None, None)
NoPackage == [ package_key |-> None, package_info |-> << >>, filename |-> None ]

\* subprocess.run(['dpkg-deb', '-f', deb_path], check=True) raises CalledProcessError
DpkgRaises(file) == file.kind # "deb"

\* an extractor that would append Filename, Size and the digests before the
\* depiction and icon fields
DerivedFieldsFileFirst(package_name, deb_path, file) ==
    P_Filename \o deb_path \o NL
    \o P_Size \o FileSize(file) \o NL
    \o Concat([ i \in 1..Len(get_file_hashes(file)) |->
                  get_file_hashes(file)[i][1] \o get_file_hashes(file)[i][2] \o NL ])
    \o (IF Truthy(DictGet(havoc_ids, package_name))
        THEN P_Depiction \o havoc_ids[package_name] \o NL
             \o P_SileoDepiction \o havoc_ids[package_name] \o S_depiction_json \o NL
             \o (IF BASE_URL # << >> /\ Truthy(DictGet(icon_mappings, package_name))
                 THEN P_Icon \o BASE_URL \o S_icons \o icon_mappings[package_name] \o NL
                 ELSE << >>)
        ELSE << >>)

\* the fields appended after the control fields
DerivedFields(package_name, deb_path, file) ==
    LET havoc_id == DictGet(havoc_ids, package_name)
        icon_name == DictGet(icon_mappings, package_name)
        hashes == get_file_hashes(file)
    IN (IF Truthy(havoc_id)
        THEN P_Depiction \o havoc_id[1] \o NL
             \o P_SileoDepiction \o havoc_id[1] \o S_depiction_json \o NL
             \o (IF BASE_URL # << >> /\ Truthy(icon_name)
                 THEN P_Icon \o BASE_URL \o S_icons \o icon_name[1] \o NL ELSE << >>)
        ELSE << >>)
       \o P_Filename \o deb_path \o NL
       \o P_Size \o FileSize(file) \o NL
       \o Concat([ i \in 1..Len(hashes) |-> hashes[i][1] \o hashes[i][2] \o NL ])

\* process_single_deb_file for a file dpkg-deb reads: (package_key, package_info, deb_path)
process_single_deb_file(deb_path, file) ==
    LET control_content == file.control
        package_name == ReSearchLine(P_Package, control_content)
        version == ReSearchLine(P_Version, control_content)
        architecture == ReSearchLine(P_Architecture, control_content)
    IN IF package_name = None THEN NoPackage
       ELSE LET name == package_name[1]
                package_key == PackageKey(name,
                                   IF version # None THEN version[1] ELSE S_unknown,
                                   IF architecture # None THEN architecture[1] ELSE S_unknown)
                titled == IF name \in DOMAIN package_title_mappings
                          THEN ReSubName(package_title_mappings[name], control_content)
                          ELSE control_content
            IN IF name \in hidden_packages THEN NoPackage
               ELSE [ package_key |-> Some(package_key),
                      package_info |-> titled \o DerivedFields(name, deb_path, file),
                      filename |-> Some(deb_path) ]

\* `if package_key and package_info`
Produced(r) == Truthy(r.package_key) /\ r.package_info # << >>

\* the loop of generate_packages_file from the i-th file on: the text written,
\* and whether process_single_deb_file raised (nothing is written after that)
RECURSIVE GenerateFrom(_, _, _)
GenerateFrom(dir, deb_files, i) ==
    IF i > Len(deb_files) THEN [ raised |-> FALSE, data |-> << >> ]
    ELSE IF DpkgRaises(dir[deb_files[i]]) THEN [ raised |-> TRUE, data |-> << >> ]
    ELSE LET r == process_single_deb_file(PathJoin(deb_directory, deb_files[i]),
                                          dir[deb_files[i]])
             rest == GenerateFrom(dir, deb_files, i + 1)
         IN [ raised |-> rest.raised,
              data |-> (IF Produced(r) THEN r.package_info \o NL ELSE << >>) \o rest.data ]

\* sorted(os.listdir(deb_directory))
ListDir(dir) == Sorted({ n \in DOMAIN dir : dir[n].kind # "absent" })

IsDebFile(deb_file) == EndsWith(deb_file, S_deb)

\* generate_packages_file: the text written to the output file, which is opened
\* (and emptied) first, and whether process_single_deb_file raised on the way
generate_packages_file(dir) == GenerateFrom(dir, SelectSeq(ListDir(dir), IsDebFile), 1)

NothingNew == [ raised |-> FALSE, new_packages |-> EmptyDict, updated_filenames |-> {} ]

\* what merge_packages_file records for one produced package
RecordNew(done, r) ==
    [ raised |-> FALSE,
      new_packages |-> [ k \in DOMAIN done.new_packages \cup { r.package_key[1] } |->
                           IF k = r.package_key[1] THEN r.package_info
                           ELSE done.new_packages[k] ],
      updated_filenames |-> done.updated_filenames \cup { r.filename[1] } ]

\* the body of the loop of merge_packages_file for one path of the ChangeSet
\* on which process_single_deb_file does not raise
ProcessOne(done, dir, deb_file) ==
    IF ~PathExists(dir, deb_file) THEN done
    ELSE LET r == process_single_deb_file(deb_file, FileAt(dir, deb_file)) IN
         IF Produced(r) THEN RecordNew(done, r) ELSE done

\* the loop of merge_packages_file over the ChangeSet: new_packages and
\* updated_filenames, and whether process_single_deb_file raised
RECURSIVE ProcessChangeSet(_, _, _, _)
ProcessChangeSet(done, dir, new_deb_files, i) ==
    IF i > Len(new_deb_files) THEN done
    ELSE IF PathExists(dir, new_deb_files[i]) /\ DpkgRaises(FileAt(dir, new_deb_files[i]))
    THEN [ done EXCEPT !.raised = TRUE ]
    ELSE ProcessChangeSet(ProcessOne(done, dir, new_deb_files[i]), dir, new_deb_files, i + 1)

\* the existing entries merge_packages_file keeps: those whose filename is not
\* among the updated file names
KeptExisting(existing_packages, updated_filenames) ==
    { k \in DOMAIN existing_packages :
        ~( existing_packages[k].filename # None
           /\ existing_packages[k].filename[1] \in updated_filenames ) }

\* all_packages of merge_packages_file: the kept entries, then the new ones over them
MergeMaps(existing_packages, new_packages, updated_filenames) ==
    LET kept == KeptExisting(existing_packages, updated_filenames) IN
    [ k \in kept \cup DOMAIN new_packages |->
        IF k \in DOMAIN new_packages THEN new_packages[k] ELSE existing_packages[k].block ]

\* a writer that would go through the keys in descending order
WriteOrderDescending(keys) ==
    [ i \in 1..Len(Sorted(keys)) |-> Sorted(keys)[Len(Sorted(keys)) + 1 - i] ]

\* the key order in which merge_packages_file writes
WriteOrder(keys) == Sorted(keys)

\* a writer that would end each entry's last line but leave out the blank line
WriteEntryUnseparated(block) == block \o (IF EndsWith(block, NL) THEN << >> ELSE NL)

\* what merge_packages_file writes for one entry
WriteEntry(block) == block \o (IF EndsWith(block, NL) THEN << >> ELSE NL) \o NL

\* the text merge_packages_file writes for all_packages
WritePackages(all_packages) ==
    LET order == WriteOrder(DOMAIN all_packages) IN
    Concat([ i \in 1..Len(order) |-> WriteEntry(all_packages[order[i]]) ])

\* what merge_packages_file does when it returns early or raises: nothing is written
NotWritten(raised) == [ wrote |-> FALSE, raised |-> raised, data |-> << >> ]

\* a merge that would open the output file for writing before the loop over
\* the ChangeSet: an exception in the loop leaves the file empty
MergeAndWriteOpenedFirst(existing_packages, done) ==
    IF done.raised THEN [ wrote |-> TRUE, raised |-> TRUE, data |-> << >> ]
    ELSE [ wrote |-> TRUE, raised |-> FALSE,
           data |-> WritePackages(MergeMaps(existing_packages, done.new_packages,
                                            done.updated_filenames)) ]

\* the end of merge_packages_file: all_packages is built and written in key order
MergeAndWrite(existing_packages, done) ==
    IF done.raised THEN NotWritten(TRUE)
    ELSE [ wrote |-> TRUE, raised |-> FALSE,
           data |-> WritePackages(MergeMaps(existing_packages, done.new_packages,
                                            done.updated_filenames)) ]

\* merge_packages_file from the ChangeSet on
MergeChangeSet(dir, output_file, new_deb_files) ==
    IF new_deb_files = << >> THEN NotWritten(FALSE)
    ELSE MergeAndWrite(parse_existing_packages(output_file),
                       ProcessChangeSet(NothingNew, dir, new_deb_files, 1))

\* a merge that would fall back to generate_packages_file on an empty ChangeSet
merge_or_generate(dir, output_file, all_new_files) ==
    IF get_newly_added_deb_files(all_new_files) = << >>
    THEN [ wrote |-> TRUE, raised |-> generate_packages_file(dir).raised,
           data |-> generate_packages_file(dir).data ]
    ELSE MergeChangeSet(dir, output_file, get_newly_added_deb_files(all_new_files))

\* merge_packages_file: whether it writes the output file, the text it writes,
\* and whether it raised
merge_packages_file(dir, output_file, all_new_files) ==
    MergeChangeSet(dir, output_file, get_newly_added_deb_files(all_new_files))

\* compress_file and compress_zst: the compressed stream, the codec's mark and the payload
Compressed(codec, data) == codec \o data
Gzip == << "g", "z" >>
Bzip2 == << "b", "z", "2" >>
Xz == << "x", "z" >>
Zstd == << "z", "s", "t" >>
compress_file(input_file, codec) == File(Compressed(codec, input_file.data))

----------------------------------------------------------------------------
(* build_release.py *)

\* packages_files of main, in order, with the file each names
ArtifactNames == << "Packages", "Packages.gz", "Packages.bz2", "Packages.xz", "Packages.zst" >>
ArtifactFiles(p, gz, bz2, xz, zst) == << p, gz, bz2, xz, zst >>

NoRelease == [ exists |-> FALSE, complete |-> FALSE, listed |-> << >> ]

\* generate_release_file: the output file is opened and the header written first;
\* the first digest block then reads the artifacts in order and raises on the
\* first that is missing. listed: the artifacts with a line in that block.
generate_release_file(files) ==
    LET missing == { i \in 1..Len(files) : ~files[i].exists }
        reached == IF missing = {} THEN Len(files) ELSE MinOf(missing) - 1
    IN [ exists |-> TRUE, complete |-> missing = {},
         listed |-> SubSeq(ArtifactNames, 1, reached) ]

----------------------------------------------------------------------------
(* The runs *)

\* what git reports as newly added: up to MaxChangeSet distinct paths, in any order
RECURSIVE Lists(_, _)
Lists(S, n) ==
    IF n = 0 THEN { << >> }
    ELSE LET shorter == Lists(S, n - 1) IN
         shorter \cup { Append(l, x) : l \in shorter, x \in S }
GitOutputs == { l \in Lists(GitPaths, MaxChangeSet) : Cardinality(Range(l)) = Len(l) }

\* no run yet; a run records SPARSE_CHECKOUT, the ChangeSet that
\* get_newly_added_deb_files returned, whether main returned ("ok") or ended in
\* an uncaught exception ("error"), whether it opened 'Packages' for writing,
\* whether 'Packages' as it is now was written by merge_packages_file (by_merge),
\* and whether 'Packages' as the run found it was (from_merge)
NoRun == [ sparse |-> FALSE, new_deb_files |-> << >>, outcome |-> "none", wrote |-> FALSE,
           by_merge |-> FALSE, from_merge |-> FALSE ]

Init ==
    /\ downloads \in Directories
    /\ BASE_URL \in BaseUrls
    /\ packages \in { NoFile, File(LegacyDocument), File(DuplicateDocument) }
    /\ packages_gz = NoFile
    /\ packages_bz2 = NoFile
    /\ packages_xz = NoFile
    /\ packages_zst = NoFile
    /\ release = NoRelease
    /\ prior = packages
    /\ last = NoRun

\* the four compressions at the end of main of build_packages.py; the first one
\* raises when 'Packages' does not exist
CompressAll(input_file) ==
    /\ packages_gz' = compress_file(input_file, Gzip)
    /\ packages_bz2' = compress_file(input_file, Bzip2)
    /\ packages_xz' = compress_file(input_file, Xz)
    /\ packages_zst' = compress_file(input_file, Zstd)

CompressNone == UNCHANGED << packages_gz, packages_bz2, packages_xz, packages_zst >>

\* the end of main of build_packages.py: 'Packages' is as the merge or the
\* rebuild left it, and is compressed unless an exception ended the run before
FinishMain(after, raised, sparse, new_deb_files, wrote) ==
    /\ packages' = after
    /\ IF raised THEN CompressNone ELSE CompressAll(after)
    /\ prior' = packages
    /\ last' = [ sparse |-> sparse, new_deb_files |-> new_deb_files,
                 outcome |-> IF raised THEN "error" ELSE "ok", wrote |-> wrote,
                 by_merge |-> IF wrote THEN sparse ELSE last.by_merge,
                 from_merge |-> last.by_merge ]
    /\ UNCHANGED << downloads, release, BASE_URL >>

\* main of build_packages.py with SPARSE_CHECKOUT=true
BuildPackagesSparse(all_new_files) ==
    \E m \in { merge_packages_file(downloads, packages, all_new_files) } :
        FinishMain(IF m.wrote THEN File(m.data) ELSE packages,
                   m.raised \/ (~m.wrote /\ ~packages.exists),
                   TRUE, get_newly_added_deb_files(all_new_files), m.wrote)

\* main of build_packages.py with SPARSE_CHECKOUT unset
BuildPackagesNormal ==
    \E g \in { generate_packages_file(downloads) } :
        FinishMain(File(g.data), g.raised, FALSE, << >>, TRUE)

\* main of build_release.py
BuildRelease ==
    /\ release' = generate_release_file(
                      ArtifactFiles(packages, packages_gz, packages_bz2, packages_xz, packages_zst))
    /\ UNCHANGED << downloads, packages, packages_gz, packages_bz2, packages_xz,
                    packages_zst, prior, BASE_URL, last >>

Next ==
    \/ \E all_new_files \in GitOutputs : BuildPackagesSparse(all_new_files)
    \/ BuildPackagesNormal
    \/ BuildRelease

Spec == Init /\ [][Next]_vars

----------------------------------------------------------------------------
(* Reading an index document, for the properties below *)

NLNLNL == << "\n", "\n", "\n" >>

NonBlank(block) == Strip(block) # << >>

\* the stanzas of a document: what lies between blank lines
StanzaBlocks(text) == SelectSeq(Split(text, NLNL), NonBlank)

\* the Package, Version, Architecture and Filename fields of a stanza
Fields(block) == ScanLines(NoFields, Split(Strip(block), NL), 1)

Triple(block) ==
    << Fields(block).package_name, Fields(block).version, Fields(block).architecture >>

HasPackage(block) == Fields(block).package_name # None

\* the composite key of a stanza that has a Package field, "unknown" standing
\* for a Version or Architecture it lacks
StanzaKey(block) ==
    PackageKey(Fields(block).package_name[1],
               IF Fields(block).version # None THEN Fields(block).version[1] ELSE S_unknown,
               IF Fields(block).architecture # None THEN Fields(block).architecture[1]
               ELSE S_unknown)

DocKeys(text) ==
    LET bs == SelectSeq(StanzaBlocks(text), HasPackage) IN
    [ i \in 1..Len(bs) |-> StanzaKey(bs[i]) ]

KeysAscending(text) ==
    LET ks == DocKeys(text) \o << >> IN
    \A i \in 1..(Len(ks) - 1) : ~StrLess(ks[i + 1], ks[i])

UniqueTriples(text) ==
    LET bs == StanzaBlocks(text) IN
    \A i, j \in 1..Len(bs) : i < j => Triple(bs[i]) # Triple(bs[j])

HasFilename(text, path) ==
    \E b \in Range(StanzaBlocks(text)) : Fields(b).filename = Some(path)

\* a run of build_packages.py has happened, in the mode named
SparseRun == last.outcome # "none" /\ last.sparse
NormalRun == last.outcome # "none" /\ ~last.sparse

\* the paths of the last ChangeSet
ChangeSet == Range(last.new_deb_files)

\* an archive of the ChangeSet whose package is in the hidden set
HiddenArchive(path) ==
    /\ PathExists(downloads, path)
    /\ ~DpkgRaises(FileAt(downloads, path))
    /\ ReSearchLine(P_Package, FileAt(downloads, path).control) # None
    /\ ReSearchLine(P_Package, FileAt(downloads, path).control)[1] \in hidden_packages

\* an archive of the ChangeSet whose extraction fails
FailingArchive(path) ==
    /\ PathExists(downloads, path)
    /\ \/ DpkgRaises(FileAt(downloads, path))
       \/ ReSearchLine(P_Package, FileAt(downloads, path).control) = None

\* an archive of the ChangeSet whose extraction yields a stanza
GoodArchive(path) ==
    /\ PathExists(downloads, path)
    /\ ~DpkgRaises(FileAt(downloads, path))
    /\ Produced(process_single_deb_file(path, FileAt(downloads, path)))

----------------------------------------------------------------------------
(* The claims *)

\* C1: after any merge, full rebuild or incremental, no two stanzas of the written
\* index document share the same (Package, Version, Architecture) triple.
C1_Uniqueness == (last.outcome # "none" /\ last.wrote) => UniqueTriples(packages.data)

\* C2: when the prior document has a stanza with Filename F and the ChangeSet of an
\* incremental merge holds the path F of an archive whose package is hidden, the
\* merged document has no stanza with Filename F.
C2_TouchedFilenameInvalidation ==
    (SparseRun /\ last.wrote) =>
        \A path \in ChangeSet :
            (HiddenArchive(path) /\ HasFilename(prior.data, path))
                => ~HasFilename(packages.data, path)

\* C3: the incremental merge writes exactly the prior stanzas whose Filename is not
\* a touched file name (a path of the ChangeSet that was processed, whether or not
\* it produced a stanza), plus the freshly extracted stanzas, a fresh stanza
\* replacing the prior one of its key.
C3_MergedSet ==
    (SparseRun /\ last.wrote) =>
        LET touched == { path \in ChangeSet : PathExists(downloads, path) }
            existing == parse_existing_packages(prior)
            fresh == ProcessChangeSet(NothingNew, downloads, last.new_deb_files, 1).new_packages
        IN { Strip(b) : b \in Range(StanzaBlocks(packages.data)) }
           = { Strip(existing[k].block) :
                 k \in { e \in DOMAIN existing :
                           /\ e \notin DOMAIN fresh
                           /\ ~( existing[e].filename # None
                                 /\ existing[e].filename[1] \in touched ) } }
             \cup { Strip(fresh[k]) : k \in DOMAIN fresh }

\* C4 as stated: after every run of the incremental merge, whatever the ChangeSet and
\* the prior document, the stanzas on disk are in ascending order of their key.
C4_AlwaysSorted == (SparseRun /\ packages.exists) => KeysAscending(packages.data)

\* C4 as amended: whenever the incremental merge writes the index document, its
\* stanzas are in ascending order of their key.
C4_WrittenSorted == (SparseRun /\ last.wrote) => KeysAscending(packages.data)

\* C4 witness: the merge wrote two or more stanzas over a prior document that was
\* not in key order.
C4_Witness ==
    /\ SparseRun /\ last.wrote
    /\ Len(StanzaBlocks(packages.data)) >= 2
    /\ prior.exists /\ ~KeysAscending(prior.data)

\* C5: an archive of the ChangeSet whose extraction fails is skipped: the merge
\* writes the document, and the stanza of every other archive of the ChangeSet
\* is in it.
C5_FailedArchiveSkipped ==
    (SparseRun /\ \E path \in ChangeSet : FailingArchive(path)) =>
        /\ last.wrote
        /\ \A path \in ChangeSet :
               GoodArchive(path) =>
                   process_single_deb_file(path, FileAt(downloads, path)).package_key[1]
                       \in Range(DocKeys(packages.data))

----------------------------------------------------------------------------
(* Round trips of an index document through the reader and the writer *)

\* a well-formed index document: every stanza is followed by exactly one blank
\* line, the last one included, and has a Package, a Version and an Architecture
WellFormedDocument(text) ==
    LET pieces == Split(text, NLNL) IN
    /\ pieces[Len(pieces)] = << >>
    /\ \A i \in 1..(Len(pieces) - 1) :
           /\ pieces[i] # << >>
           /\ Strip(pieces[i]) = pieces[i]
           /\ Truthy(Fields(pieces[i]).package_name)
           /\ Truthy(Fields(pieces[i]).version)
           /\ Truthy(Fields(pieces[i]).architecture)

\* no two stanzas of the document have the same composite key
DistinctKeys(text) ==
    LET ks == DocKeys(text) \o << >> IN
    \A i, j \in 1..Len(ks) : i < j => ks[i] # ks[j]

\* parse_existing_packages, then the writer of merge_packages_file on what it read
Reserialize(text) ==
    WritePackages(MergeMaps(parse_existing_packages(File(text)), EmptyDict, {}))

\* how many stanzas of the document are the given one
Copies(text, block) ==
    Cardinality({ i \in 1..Len(StanzaBlocks(text)) : StanzaBlocks(text)[i] = block })

\* the stanzas come back, each as often as before and each with its lines as they
\* were, and the text that was written comes back byte for byte when read and
\* written once more
RoundTripStable(text) ==
    /\ Len(StanzaBlocks(Reserialize(text))) = Len(StanzaBlocks(text))
    /\ \A b \in Range(StanzaBlocks(text)) : Copies(Reserialize(text), b) = Copies(text, b)
    /\ Reserialize(Reserialize(text)) = Reserialize(text)

\* C6 as stated: every well-formed index document on disk is stable under parsing
\* and re-serializing: the same stanzas come back, and serializing again gives the
\* same bytes.
C6_RoundTrip ==
    (packages.exists /\ WellFormedDocument(packages.data)) => RoundTripStable(packages.data)

\* C6 as amended: every well-formed index document on disk whose stanzas have
\* pairwise distinct keys is stable under parsing and re-serializing.
C6_RoundTripDistinctKeys ==
    (packages.exists /\ WellFormedDocument(packages.data) /\ DistinctKeys(packages.data))
        => RoundTripStable(packages.data)

\* C6 witness: an incremental merge read a well-formed document of two or more
\* stanzas with distinct keys that was not in key order, and what it wrote is that
\* document read and written again.
C6_Witness ==
    /\ SparseRun /\ last.wrote
    /\ prior.exists /\ WellFormedDocument(prior.data) /\ DistinctKeys(prior.data)
    /\ Len(StanzaBlocks(prior.data)) >= 2
    /\ ~KeysAscending(prior.data)
    /\ packages.data = Reserialize(prior.data)
    /\ WellFormedDocument(packages.data) /\ DistinctKeys(packages.data)

\* C7 as stated: when the ChangeSet is empty the incremental merge rebuilds the
\* index document from every archive of the source directory.
C7_EmptyChangeSetRebuilds ==
    (SparseRun /\ last.new_deb_files = << >>) =>
        (packages.exists /\ packages.data = generate_packages_file(downloads).data)

\* C7 as amended: when the ChangeSet is empty the incremental merge writes nothing
\* and the index document is left as it was.
C7_EmptyChangeSetLeavesDocument ==
    (SparseRun /\ last.new_deb_files = << >>) => (~last.wrote /\ packages = prior)

\* C7 witness: an incremental merge ran with an empty ChangeSet over a document
\* that differs from what a full rebuild of the directory writes.
C7_Witness ==
    /\ SparseRun /\ last.new_deb_files = << >>
    /\ prior.exists
    /\ generate_packages_file(downloads).data # << >>
    /\ prior.data # generate_packages_file(downloads).data

\* the .deb files of the directory, in the order of their names, that dpkg-deb
\* reads and that yield a stanza
SurvivingDebFiles(dir) ==
    LET Survives(n) ==
            /\ ~DpkgRaises(dir[n])
            /\ Produced(process_single_deb_file(PathJoin(deb_directory, n), dir[n]))
    IN SelectSeq(SelectSeq(ListDir(dir), IsDebFile), Survives)

\* C8: the full rebuild processes every .deb file of the directory in the order of
\* the file names, and the written document holds, in that order, the stanza of each
\* archive that is read and is not hidden, and nothing else.
C8_RebuildInFilenameOrder ==
    NormalRun =>
        /\ Len(StanzaBlocks(packages.data)) = Len(SurvivingDebFiles(downloads))
        /\ \A i \in 1..Len(SurvivingDebFiles(downloads)) :
               StanzaBlocks(packages.data)[i]
                   = Strip(process_single_deb_file(
                               PathJoin(deb_directory, SurvivingDebFiles(downloads)[i]),
                               downloads[SurvivingDebFiles(downloads)[i]]).package_info)

\* C9: the summary document exists on disk, fully or partly written, only when
\* all five artifacts have been written.
C9_ReleaseAfterArtifacts ==
    release.exists =>
        \A f \in { packages, packages_gz, packages_bz2, packages_xz, packages_zst } : f.exists

\* exactly one blank line between consecutive stanzas, and a newline at the end
Normalized(text) ==
    /\ ~Contains(text, NLNLNL)
    /\ (text # << >> => EndsWith(text, NL))

\* C10: whatever the prior document, stray blank regions included, the document the
\* incremental merge writes has exactly one blank line between consecutive stanzas
\* and ends with a newline.
C10_WriterNormalizes == (SparseRun /\ last.wrote) => Normalized(packages.data)

----------------------------------------------------------------------------
(* The fields of a freshly extracted stanza *)

\* the name of a field line: what stands before ': '
FieldName(line) == SplitOnce(line, ColonSpace)[1]

\* the names of the derived fields, in the order process_single_deb_file appends them
N_Depiction == FieldName(P_Depiction)
N_SileoDepiction == FieldName(P_SileoDepiction)
N_Icon == FieldName(P_Icon)
DerivedFieldOrder ==
    << N_Depiction, N_SileoDepiction, N_Icon, FieldName(P_Filename), FieldName(P_Size),
       FieldName(P_MD5sum), FieldName(P_SHA1), FieldName(P_SHA256), FieldName(P_SHA512) >>

OrderIndex(name) == CHOOSE i \in 1..Len(DerivedFieldOrder) : DerivedFieldOrder[i] = name

\* the lines of a stanza, and the names of its fields after the first n
StanzaLines(block) == Split(Strip(block), NL)
FieldNamesAfter(block, n) ==
    [ i \in 1..(Len(StanzaLines(block)) - n) |-> FieldName(StanzaLines(block)[n + i]) ]

\* the names are derived field names, each once, in the fixed order
InFixedOrder(names) ==
    /\ \A i \in DOMAIN names : names[i] \in Range(DerivedFieldOrder)
    /\ \A i, j \in DOMAIN names : i < j => OrderIndex(names[i]) < OrderIndex(names[j])

\* the archive paths whose stanza in 'Packages' was extracted in the last run
FreshPaths ==
    IF NormalRun
    THEN { Fields(b).filename[1] : b \in Range(StanzaBlocks(packages.data)) }
    ELSE IF SparseRun /\ last.wrote THEN { p \in ChangeSet : GoodArchive(p) }
    ELSE {}

\* what the claim says of the stanza written for the archive at a path
DerivedFieldsAsClaimed(block, path) ==
    LET control == StanzaLines(FileAt(downloads, path).control)
        names == FieldNamesAfter(block, Len(control))
        package_name == ReSearchLine(P_Package, FileAt(downloads, path).control)[1]
    IN /\ Len(StanzaLines(block)) >= Len(control)
       /\ \A i \in 1..Len(control) :
              FieldName(StanzaLines(block)[i]) = FieldName(control[i])
       /\ InFixedOrder(names)
       /\ \A i \in 4..Len(DerivedFieldOrder) : DerivedFieldOrder[i] \in Range(names)
       /\ N_Depiction \in Range(names) <=> Truthy(DictGet(havoc_ids, package_name))
       /\ N_SileoDepiction \in Range(names) <=> Truthy(DictGet(havoc_ids, package_name))
       /\ N_Icon \in Range(names) =>
              (BASE_URL # << >> /\ Truthy(DictGet(icon_mappings, package_name)))

\* C11: the stanza written for a non-hidden archive holds the control fields and
\* then the derived fields in the order Depiction, SileoDepiction, Icon, Filename,
\* Size, MD5sum, SHA1, SHA256, SHA512; Filename, Size and the digests always, the
\* two depiction fields exactly when the package has a depiction id, and Icon only
\* when a base URL and an icon id for the package are configured.
C11_DerivedFieldOrder ==
    \A path \in FreshPaths :
        \A b \in Range(StanzaBlocks(packages.data)) :
            Fields(b).filename = Some(path) => DerivedFieldsAsClaimed(b, path)

\* C11 witness: the last run wrote a stanza with all nine derived fields.
C11_Witness ==
    \E path \in FreshPaths :
        \E b \in Range(StanzaBlocks(packages.data)) :
            /\ Fields(b).filename = Some(path)
            /\ Len(StanzaLines(b)) - Len(StanzaLines(FileAt(downloads, path).control))
                   = Len(DerivedFieldOrder)
            /\ N_Icon \in Range(FieldNamesAfter(b, Len(StanzaLines(FileAt(downloads, path).control))))

----------------------------------------------------------------------------
(* Consecutive incremental merges *)

\* a stanza of the document the merge found comes back under its key, and is
\* written again unless its file was processed or a new record has its key
Persists(b) ==
    LET existing == parse_existing_packages(prior)
        fresh == ProcessChangeSet(NothingNew, downloads, last.new_deb_files, 1).new_packages
        touched == { path \in ChangeSet : PathExists(downloads, path) }
    IN /\ StanzaKey(b) \in DOMAIN existing
       /\ Strip(existing[StanzaKey(b)].block) = Strip(b)
       /\ ( /\ ~(Fields(b).filename # None /\ Fields(b).filename[1] \in touched)
            /\ StanzaKey(b) \notin DOMAIN fresh )
          => \E c \in Range(StanzaBlocks(packages.data)) : Strip(c) = Strip(b)

\* C12: every stanza written by one incremental merge is recovered under the same
\* key by the next incremental merge, and is in that merge's output when its
\* Filename is not touched and no new record has its key; also the stanza of an
\* archive without a Version or Architecture field, whose key holds "unknown".
C12_StanzasPersist ==
    (SparseRun /\ last.wrote /\ last.from_merge) =>
        \A b \in Range(StanzaBlocks(prior.data)) : HasPackage(b) => Persists(b)

----------------------------------------------------------------------------
(* The incremental merge and the file it writes *)

\* process_single_deb_file raises on an archive of the ChangeSet
ExtractionAborts ==
    \E path \in ChangeSet : PathExists(downloads, path) /\ DpkgRaises(FileAt(downloads, path))

\* C13: the incremental merge opens the index document for writing only after it
\* has processed the whole ChangeSet: when extraction ends in an exception, or the
\* ChangeSet is empty, the merge has not opened the document and the document on
\* disk is byte for byte what it was, or is still absent.
C13_UnchangedOnAbort ==
    (SparseRun /\ (ExtractionAborts \/ ChangeSet = {})) =>
        /\ ~last.wrote
        /\ packages.exists = prior.exists
        /\ packages.data = prior.data

\* C13 witness: an incremental merge extracted an archive of the ChangeSet, whose
\* stanza is not in the document, and then ended in an exception on a later one.
C13_Witness ==
    /\ SparseRun /\ last.outcome = "error" /\ prior.exists
    /\ Len(last.new_deb_files) >= 2
    /\ GoodArchive(last.new_deb_files[1])
    /\ ~HasFilename(prior.data, last.new_deb_files[1])
    /\ PathExists(downloads, last.new_deb_files[2])
    /\ DpkgRaises(FileAt(downloads, last.new_deb_files[2]))

====
